---- MODULE Spec2Model ----
(***************************************************************************)
(* Team membership and invitation state machine of the AWFM backend        *)
(* (apps/teams), over the Identity table of apps/accounts.                 *)
(*                                                                         *)
(* The database is the state: users, teams, team_memberships and           *)
(* pending_invitations.  Every request handler of apps/teams/views.py is   *)
(* one action that runs to completion (requests are taken one at a time).  *)
(* A handler is a function of the database and the request: what it        *)
(* answers (the ...Response operators) and the tables as it leaves them    *)
(* (the ...Memberships, ...Pending and ...Teams operators).  An action is  *)
(* enabled when its handler gets past its early returns; a request that    *)
(* is turned away leaves the state as it is.                               *)
(*                                                                         *)
(* Spec runs the handlers of apps/teams one at a time.  SpecFaults adds    *)
(* handlers stopped by a write that raises, SpecAccounts is the account    *)
(* soft-delete and restoration flow of apps/accounts, SpecConcurrent lets  *)
(* the reads and writes of overlapping requests interleave, and SpecAgents *)
(* adds the guardian / emergency-contact settings of a Membership.         *)
(***************************************************************************)
EXTENDS Integers, FiniteSets, Sequences, TLC

\* ---------------------------------------------------------------- bounds
NumUsers == 2          \* identities that may register
MaxTeams == 1          \* teams that may be created
MaxIds   == 3          \* fresh uuid4 / token_urlsafe values that may be drawn
MaxTime  == 3          \* last instant of the clock
MaxTicks == 3          \* times the accounts' clock may advance

\* ------------------------------------------------------------- constants
\* The clock counts units of 7 days; it starts at 1 so that 0 is the null
\* timestamp.  timedelta(days=7) is one unit.
InvitationTTL == 1
NULL == 0

ROLE_LEADER  == "leader"
ROLE_MEMBER  == "member"
ROLE_WITNESS == "witness"
ROLE_CHOICES == {ROLE_LEADER, ROLE_MEMBER, ROLE_WITNESS}

STATUS_PENDING == "pending"
STATUS_ACTIVE  == "active"
STATUS_LEFT    == "left"
STATUS_CHOICES == {STATUS_PENDING, STATUS_ACTIVE, STATUS_LEFT}

\* E-mail addresses (local parts), in the order in which their owners
\* register.  "B" and "b" differ only in letter case.
EmailSeq == <<"a", "B", "b">>
Emails == {EmailSeq[i] : i \in DOMAIN EmailSeq}
\* Team names; "t" and "T" are equal under name__iexact.
TeamNames == {"t", "T"}

\* str.lower()
Lower(s) == CASE s = "B" -> "b" [] s = "T" -> "t" [] OTHER -> s

UserIds == 1..NumUsers
TeamIds == 1..MaxTeams
Tokens  == 1..MaxIds

VARIABLES
    users,          \* sequence: users[u] is the e-mail of identity u
    teams,          \* sequence: teams[t] = [name, created_by, deleted_at]
    memberships,    \* set of team_memberships rows
    pending,        \* set of pending_invitations rows
    now,            \* timezone.now()
    nextId,         \* next fresh uuid / invitation token
    outstanding,    \* history: <<team, email>> invited, not yet accepted or declined
    accounts,       \* sequence: accounts[u] = the soft-delete columns of identity u
    clock,          \* timezone.now() as apps/accounts reads it, in hours
    calls           \* set: the requests in flight, each with what it has read

db   == <<users, teams, memberships, pending>>
vars == <<users, teams, memberships, pending, now, nextId, outstanding, accounts, clock,
         calls>>

\* ------------------------------------------------------------ responses
\* what a handler returns: the HTTP status and which message
Outcome(code, error) == [code |-> code, error |-> error]

Succeeded(r) == r.code \in {200, 201}

\* ----------------------------------------------------------- ORM queries
\* QuerySet.first() under Meta.ordering = ['created_at']: ids grow with
\* creation time.
First(S) == CHOOSE m \in S : \A o \in S : m.id <= o.id

\* Team.objects.get(id=id, deleted_at__isnull=True) finds a team
TeamLive(t) == t \in DOMAIN teams /\ teams[t].deleted_at = NULL

\* team.memberships.filter(user=u, status='active')
ActiveMemberships(t, u) ==
    {m \in memberships : m.team = t /\ m.user = u /\ m.status = STATUS_ACTIVE}

\* the same lookup without role='leader'
LeaderMemberships_AnyRole(t, u) == ActiveMemberships(t, u)

\* team.memberships.filter(user=u, role='leader', status='active')
LeaderMemberships(t, u) ==
    {m \in ActiveMemberships(t, u) : m.role = ROLE_LEADER}

\* the views' test "not membership or membership.role != ROLE_LEADER", negated
IsLeaderRequest(t, u) ==
    /\ ActiveMemberships(t, u) # {}
    /\ First(ActiveMemberships(t, u)).role = ROLE_LEADER

\* Team.get_leader(): the queryset behind .first()
GetLeader(t) ==
    {m \in memberships : m.team = t /\ m.role = ROLE_LEADER /\ m.status = STATUS_ACTIVE}

\* Model.validate_unique(), run by full_clean() in TeamMembership.save():
\* unique_together (team, user) and the unique invitation_token column.
ValidateUnique(rows, row) ==
    /\ \A r \in rows : ~(r.team = row.team /\ r.user = row.user)
    /\ row.invitation_token # NULL =>
           \A r \in rows : r.invitation_token # row.invitation_token

\* A team_memberships row as the handlers create it; every create() call
\* passes is_default_guardian=True and is_default_emergency_contact=True,
\* and none passes guardian_override or emergency_contact_override (null).
MembershipRow(id, t, u, role, status, invitedBy, token, sentAt, expiresAt, joinedAt) ==
    [id |-> id, team |-> t, user |-> u, role |-> role, status |-> status,
     is_default_guardian |-> TRUE, is_default_emergency_contact |-> TRUE,
     guardian_override |-> NULL, emergency_contact_override |-> NULL,
     invited_by |-> invitedBy, invitation_token |-> token,
     invitation_sent_at |-> sentAt, invitation_expires_at |-> expiresAt,
     joined_at |-> joinedAt, left_at |-> NULL]

\* ------------------------------------------------------- model methods
\* accept_invitation() that keeps the token
AcceptInvitationRow_KeepToken(m) ==
    [m EXCEPT !.status = STATUS_ACTIVE, !.joined_at = now]

\* TeamMembership.accept_invitation()
AcceptInvitationRow(m) ==
    [m EXCEPT !.status = STATUS_ACTIVE, !.joined_at = now, !.invitation_token = NULL]

\* leave_team() that does not stamp left_at
LeaveTeamRow_NoLeftAt(m) ==
    [m EXCEPT !.status = STATUS_LEFT]

\* TeamMembership.leave_team()
LeaveTeamRow(m) ==
    [m EXCEPT !.status = STATUS_LEFT, !.left_at = now]

\* instance.save(update_fields=...) : UPDATE ... WHERE id = m.id
SaveRow(rows, new) ==
    {IF r.id = new.id THEN new ELSE r : r \in rows}

\* Team.soft_delete()
SoftDeleteTeam(t) == [teams EXCEPT ![t].deleted_at = now]

\* the users columns of a new identity: is_active defaults to True,
\* deleted_at to null, restoration_code to ''
NewAccount ==
    [deleted_at |-> NULL, is_active |-> TRUE,
     restoration_code |-> "", restoration_code_expires_at |-> NULL]

\* ------------------------------------------------------------------ Init
Init ==
    /\ users = << >>
    /\ teams = << >>
    /\ memberships = {}
    /\ pending = {}
    /\ now = 1
    /\ nextId = 1
    /\ outstanding = {}
    /\ accounts = << >>
    /\ clock = 1
    /\ calls = {}

\* --------------------------------------------------------------- actions
\* RegisterView / UserManager.create_user: the e-mail column is unique
\* (compared exactly); normalize_email leaves the local part alone.
RegisterWithin(limit, email) ==
    /\ Len(users) < limit
    /\ Len(users) < Len(EmailSeq)
    /\ email = EmailSeq[Len(users) + 1]
    /\ \A u \in DOMAIN users : users[u] # email
    /\ users' = Append(users, email)
    /\ accounts' = Append(accounts, NewAccount)
    /\ UNCHANGED <<calls, clock, teams, memberships, pending, now, nextId, outstanding>>

\* registration of the first NumUsers identities
Register(email) == RegisterWithin(NumUsers, email)

\* time passes
Tick ==
    /\ now < MaxTime
    /\ now' = now + 1
    /\ UNCHANGED <<calls, accounts, clock, users, teams, memberships, pending, nextId, outstanding>>

\* CreateTeamSerializer.validate_name
CreateTeamResponse(actor, name) ==
    IF \E t \in DOMAIN teams :
           /\ teams[t].created_by = actor
           /\ Lower(teams[t].name) = Lower(name)
           /\ teams[t].deleted_at = NULL
    THEN Outcome(400, "duplicate_name")
    ELSE Outcome(201, "")

\* CreateTeamSerializer.create: Team.objects.create(created_by=user, ...)
CreateTeamTeams(actor, name) ==
    IF Succeeded(CreateTeamResponse(actor, name))
    THEN Append(teams, [name |-> name, created_by |-> actor, deleted_at |-> NULL])
    ELSE teams

\* CreateTeamSerializer.create: the creator's TeamMembership
CreateTeamMemberships(actor, name) ==
    IF Succeeded(CreateTeamResponse(actor, name))
    THEN memberships \cup
             {MembershipRow(nextId, Len(teams) + 1, actor, ROLE_LEADER, STATUS_ACTIVE,
                            NULL, NULL, NULL, NULL, NULL)}
    ELSE memberships

\* TeamListCreateView.create
CreateTeam(actor, name) ==
    LET ok == Succeeded(CreateTeamResponse(actor, name)) IN
    /\ actor \in DOMAIN users
    /\ ok
    /\ Len(teams) < MaxTeams
    /\ nextId <= MaxIds
    /\ teams' = CreateTeamTeams(actor, name)
    /\ memberships' = CreateTeamMemberships(actor, name)
    /\ nextId' = nextId + 1
    /\ UNCHANGED <<calls, accounts, clock, users, pending, now, outstanding>>

\* TeamDetailView.get_queryset(): teams the requester is an active member of
Visible(t, actor) ==
    /\ t \in DOMAIN teams
    /\ teams[t].deleted_at = NULL
    /\ \E m \in memberships :
           m.team = t /\ m.user = actor /\ m.status = STATUS_ACTIVE

\* TeamDetailView.update
UpdateTeamResponse(actor, t) ==
    IF ~Visible(t, actor) THEN Outcome(404, "not_found")
    ELSE IF ~IsLeaderRequest(t, actor) THEN Outcome(403, "leader_only")
    ELSE Outcome(200, "")

UpdateTeamTeams(actor, t, name) ==
    IF Succeeded(UpdateTeamResponse(actor, t))
    THEN [teams EXCEPT ![t].name = name]
    ELSE teams

UpdateTeam(actor, t, name) ==
    /\ actor \in DOMAIN users
    /\ Succeeded(UpdateTeamResponse(actor, t))
    /\ teams' = UpdateTeamTeams(actor, t, name)
    /\ UNCHANGED <<calls, accounts, clock, users, memberships, pending, now, nextId, outstanding>>

\* TeamDetailView.destroy
DestroyTeamResponse(actor, t, passwordOk) ==
    IF ~Visible(t, actor) THEN Outcome(404, "not_found")
    ELSE IF ~IsLeaderRequest(t, actor) THEN Outcome(403, "leader_only")
    ELSE IF ~passwordOk THEN Outcome(400, "password")
    ELSE Outcome(200, "")

DestroyTeamTeams(actor, t, passwordOk) ==
    IF Succeeded(DestroyTeamResponse(actor, t, passwordOk))
    THEN SoftDeleteTeam(t)
    ELSE teams

DestroyTeam(actor, t, passwordOk) ==
    /\ actor \in DOMAIN users
    /\ Succeeded(DestroyTeamResponse(actor, t, passwordOk))
    /\ teams' = DestroyTeamTeams(actor, t, passwordOk)
    /\ UNCHANGED <<calls, accounts, clock, users, memberships, pending, now, nextId, outstanding>>

\* restore() that leaves the timestamp
RestoreTeamIn_Keeps(ts, t) == ts

\* Team.restore() on team t of a teams table
RestoreTeamIn(ts, t) == [ts EXCEPT ![t].deleted_at = NULL]

\* Team.restore(): no view calls it; it is run on the model
RestoreTeam(t) ==
    /\ t \in DOMAIN teams
    /\ teams' = RestoreTeamIn(teams, t)
    /\ UNCHANGED <<calls, accounts, clock, users, memberships, pending, now, nextId, outstanding>>

\* e-mail values a request may carry ("" is a missing e-mail)
InviteEmails == Emails \cup {""}

\* User.objects.get(email=email): an exact match on the unique column
UsersByEmail(email) == {u \in DOMAIN users : users[u] = email}

\* the same lookup, had it been filter(status='active')
NonLeftByEmail_ActiveOnly(t, email) ==
    {m \in memberships : m.team = t /\ users[m.user] = email /\ m.status = STATUS_ACTIVE}

\* team.memberships.filter(user__email=email).exclude(status='left')
NonLeftByEmail(t, email) ==
    {m \in memberships : m.team = t /\ users[m.user] = email /\ m.status # STATUS_LEFT}

\* PendingInvitation.objects.filter(email=email, team=team)
PendingFor(t, email) == {p \in pending : p.email = email /\ p.team = t}

\* a pending_invitations row
PendingRow(id, t, email, role, invitedBy, token, expiresAt) ==
    [id |-> id, team |-> t, email |-> email, role |-> role, invited_by |-> invitedBy,
     invitation_token |-> token, expires_at |-> expiresAt]

\* InviteMemberView.post: the TeamMembership it creates when the user exists
InvitedRow(actor, t, email, role) ==
    MembershipRow(nextId, t, CHOOSE u \in UsersByEmail(email) : TRUE, role,
                  STATUS_PENDING, actor, nextId, now, now + InvitationTTL, NULL)

\* InviteMemberView.post: the PendingInvitation it creates otherwise
InvitedPendingRow(actor, t, email, role) ==
    PendingRow(nextId, t, email, role, actor, nextId, now + InvitationTTL)

\* InviteMemberView.post: the answer
InviteMemberResponse(actor, t, rawEmail, role) ==
    LET email == Lower(rawEmail) IN
    IF ~TeamLive(t) THEN Outcome(404, "team_not_found")
    ELSE IF ~IsLeaderRequest(t, actor) THEN Outcome(403, "leader_only")
    ELSE IF email = "" THEN Outcome(400, "email_required")
    ELSE IF role \notin {ROLE_MEMBER, ROLE_WITNESS} THEN Outcome(400, "invalid_role")
    ELSE IF NonLeftByEmail(t, email) # {} THEN Outcome(400, "already_member")
    ELSE IF PendingFor(t, email) # {} THEN Outcome(400, "already_invited")
    ELSE IF UsersByEmail(email) # {}
            /\ ~ValidateUnique(memberships, InvitedRow(actor, t, email, role))
    THEN Outcome(500, "unique_team_user")
    ELSE Outcome(201, "")

\* InviteMemberView.post: TeamMembership.objects.create when the user exists
InviteMemberMemberships(actor, t, rawEmail, role) ==
    IF Succeeded(InviteMemberResponse(actor, t, rawEmail, role))
       /\ UsersByEmail(Lower(rawEmail)) # {}
    THEN memberships \cup {InvitedRow(actor, t, Lower(rawEmail), role)}
    ELSE memberships

\* InviteMemberView.post: PendingInvitation.objects.create otherwise
InviteMemberPending(actor, t, rawEmail, role) ==
    IF Succeeded(InviteMemberResponse(actor, t, rawEmail, role))
       /\ UsersByEmail(Lower(rawEmail)) = {}
    THEN pending \cup {InvitedPendingRow(actor, t, Lower(rawEmail), role)}
    ELSE pending

InviteMember(actor, t, rawEmail, role) ==
    LET ok == Succeeded(InviteMemberResponse(actor, t, rawEmail, role)) IN
    /\ actor \in DOMAIN users
    /\ ok
    /\ nextId <= MaxIds
    /\ memberships' = InviteMemberMemberships(actor, t, rawEmail, role)
    /\ pending' = InviteMemberPending(actor, t, rawEmail, role)
    /\ nextId' = nextId + 1
    /\ outstanding' = outstanding \cup {<<t, Lower(rawEmail)>>}
    /\ UNCHANGED <<calls, accounts, clock, users, teams, now>>

\* the same lookup without status='pending'
PendingByToken_AnyStatus(token) ==
    {m \in memberships : m.invitation_token = token}

\* TeamMembership.objects.get(invitation_token=token, status='pending')
PendingByToken(token) ==
    {m \in memberships : m.invitation_token = token /\ m.status = STATUS_PENDING}

\* AcceptInvitationSerializer.validate_token: the expiry test
InvitationExpired(m) ==
    m.invitation_expires_at # NULL /\ now > m.invitation_expires_at

\* the answer without the view's "membership.user != request.user" test
AcceptInvitationResponse_AnyUser(actor, token) ==
    IF PendingByToken(token) = {} THEN Outcome(400, "invalid_token")
    ELSE IF InvitationExpired(First(PendingByToken(token))) THEN Outcome(400, "expired")
    ELSE Outcome(200, "")

\* AcceptInvitationView.post: the answer
AcceptInvitationResponse(actor, token) ==
    IF PendingByToken(token) = {} THEN Outcome(400, "invalid_token")
    ELSE IF InvitationExpired(First(PendingByToken(token))) THEN Outcome(400, "expired")
    ELSE IF First(PendingByToken(token)).user # actor THEN Outcome(403, "different_user")
    ELSE Outcome(200, "")

\* AcceptInvitationView.post: membership.accept_invitation()
AcceptInvitationMemberships(actor, token) ==
    IF Succeeded(AcceptInvitationResponse(actor, token))
    THEN SaveRow(memberships, AcceptInvitationRow(First(PendingByToken(token))))
    ELSE memberships

\* the <<team, email>> an invitation token of a TeamMembership stands for
InvitedPair(token) ==
    {<<m.team, users[m.user]>> : m \in PendingByToken(token)}

AcceptInvitation(actor, token) ==
    LET ok == Succeeded(AcceptInvitationResponse(actor, token)) IN
    /\ actor \in DOMAIN users
    /\ ok
    /\ memberships' = AcceptInvitationMemberships(actor, token)
    /\ outstanding' = outstanding \ InvitedPair(token)
    /\ UNCHANGED <<calls, accounts, clock, users, teams, pending, now, nextId>>

\* the answer if decline tested the expiry as accept does
DeclineInvitationResponse_ChecksExpiry(actor, token) ==
    IF PendingByToken(token) = {} THEN Outcome(400, "invalid_token")
    ELSE IF InvitationExpired(First(PendingByToken(token))) THEN Outcome(400, "expired")
    ELSE IF First(PendingByToken(token)).user # actor THEN Outcome(403, "different_user")
    ELSE Outcome(200, "")

\* DeclineInvitationView.post: the answer
DeclineInvitationResponse(actor, token) ==
    IF PendingByToken(token) = {} THEN Outcome(400, "invalid_token")
    ELSE IF First(PendingByToken(token)).user # actor THEN Outcome(403, "different_user")
    ELSE Outcome(200, "")

\* DeclineInvitationView.post: membership.delete()
DeclineInvitationMemberships(actor, token) ==
    IF Succeeded(DeclineInvitationResponse(actor, token))
    THEN memberships \ PendingByToken(token)
    ELSE memberships

DeclineInvitation(actor, token) ==
    LET ok == Succeeded(DeclineInvitationResponse(actor, token)) IN
    /\ actor \in DOMAIN users
    /\ ok
    /\ memberships' = DeclineInvitationMemberships(actor, token)
    /\ outstanding' = outstanding \ InvitedPair(token)
    /\ UNCHANGED <<calls, accounts, clock, users, teams, pending, now, nextId>>

\* the answer without the "leaders cannot leave" test
LeaveTeamResponse_LeaderMayLeave(actor, t) ==
    IF ~TeamLive(t) THEN Outcome(404, "team_not_found")
    ELSE IF ActiveMemberships(t, actor) = {} THEN Outcome(400, "not_a_member")
    ELSE Outcome(200, "")

\* LeaveTeamView.post: the answer
LeaveTeamResponse(actor, t) ==
    IF ~TeamLive(t) THEN Outcome(404, "team_not_found")
    ELSE IF ActiveMemberships(t, actor) = {} THEN Outcome(400, "not_a_member")
    ELSE IF First(ActiveMemberships(t, actor)).role = ROLE_LEADER
    THEN Outcome(400, "leader_cannot_leave")
    ELSE Outcome(200, "")

\* LeaveTeamView.post: membership.leave_team()
LeaveTeamMemberships(actor, t) ==
    IF Succeeded(LeaveTeamResponse(actor, t))
    THEN SaveRow(memberships, LeaveTeamRow(First(ActiveMemberships(t, actor))))
    ELSE memberships

LeaveTeam(actor, t) ==
    /\ actor \in DOMAIN users
    /\ Succeeded(LeaveTeamResponse(actor, t))
    /\ memberships' = LeaveTeamMemberships(actor, t)
    /\ UNCHANGED <<calls, accounts, clock, users, teams, pending, now, nextId, outstanding>>

\* the same lookup with status='active' only
Removable_ActiveOnly(t, target) ==
    {m \in memberships : m.team = t /\ m.user = target /\ m.status = STATUS_ACTIVE}

\* team.memberships.filter(user_id=user_id, status__in=['active', 'pending'])
Removable(t, target) ==
    {m \in memberships : m.team = t /\ m.user = target
                         /\ m.status \in {STATUS_ACTIVE, STATUS_PENDING}}

\* RemoveMemberView.post: the answer
RemoveMemberResponse(actor, t, target) ==
    IF ~TeamLive(t) THEN Outcome(404, "team_not_found")
    ELSE IF LeaderMemberships(t, actor) = {} THEN Outcome(403, "leader_only")
    ELSE IF actor = target THEN Outcome(400, "cannot_remove_self")
    ELSE IF Removable(t, target) = {} THEN Outcome(404, "member_not_found")
    ELSE Outcome(200, "")

\* RemoveMemberView.post: membership.leave_team()
RemoveMemberMemberships(actor, t, target) ==
    IF Succeeded(RemoveMemberResponse(actor, t, target))
    THEN SaveRow(memberships, LeaveTeamRow(First(Removable(t, target))))
    ELSE memberships

RemoveMember(actor, t, target) ==
    /\ actor \in DOMAIN users
    /\ Succeeded(RemoveMemberResponse(actor, t, target))
    /\ memberships' = RemoveMemberMemberships(actor, t, target)
    /\ UNCHANGED <<calls, accounts, clock, users, teams, pending, now, nextId, outstanding>>

\* team.memberships.get(id=membership_id)
MembershipsById(t, membershipId) ==
    {m \in memberships : m.team = t /\ m.id = membershipId}

\* the same test without .exclude(id=instance.id)
ValidateRole_CountsSelf(instance, value) ==
    (instance.role = ROLE_LEADER /\ value # ROLE_LEADER)
        => GetLeader(instance.team) # {}

\* UpdateMembershipSerializer.validate_role accepts the value
ValidateRole(instance, value) ==
    (instance.role = ROLE_LEADER /\ value # ROLE_LEADER)
        => (GetLeader(instance.team) \ {instance}) # {}

\* TeamMembership.clean() testing guardian_override only
Clean_GuardianOnly(row) ==
    ~(row.role = ROLE_WITNESS /\ row.guardian_override # NULL)

\* TeamMembership.clean(), run by full_clean() in save(): a witness holds
\* no override
Clean(row) ==
    ~(row.role = ROLE_WITNESS
        /\ (row.guardian_override # NULL \/ row.emergency_contact_override # NULL))

\* UpdateMembershipSerializer (partial=True): the fields a request carries,
\* among role, is_default_guardian and is_default_emergency_contact, written
\* on the instance
PatchedRow(m, data) ==
    [m EXCEPT
        !.role = IF "role" \in DOMAIN data THEN data.role ELSE @,
        !.is_default_guardian =
            IF "is_default_guardian" \in DOMAIN data THEN data.is_default_guardian ELSE @,
        !.is_default_emergency_contact =
            IF "is_default_emergency_contact" \in DOMAIN data
            THEN data.is_default_emergency_contact ELSE @]

\* UpdateMembershipView.patch: the answer; a ValidationError of full_clean()
\* in serializer.save() is not handled by the view (500)
PatchMembershipResponse(actor, t, membershipId, data) ==
    IF ~TeamLive(t) THEN Outcome(404, "team_not_found")
    ELSE IF LeaderMemberships(t, actor) = {} THEN Outcome(403, "leader_only")
    ELSE IF MembershipsById(t, membershipId) = {} THEN Outcome(404, "membership_not_found")
    ELSE IF "role" \in DOMAIN data
            /\ ~ValidateRole(First(MembershipsById(t, membershipId)), data.role)
    THEN Outcome(400, "cannot_remove_leader_role")
    ELSE IF ~Clean(PatchedRow(First(MembershipsById(t, membershipId)), data))
    THEN Outcome(500, "witness_cannot_be_agent")
    ELSE Outcome(200, "")

\* UpdateMembershipView.patch: serializer.save()
PatchMembershipMemberships(actor, t, membershipId, data) ==
    IF Succeeded(PatchMembershipResponse(actor, t, membershipId, data))
    THEN SaveRow(memberships, PatchedRow(First(MembershipsById(t, membershipId)), data))
    ELSE memberships

PatchMembership(actor, t, membershipId, data) ==
    /\ actor \in DOMAIN users
    /\ Succeeded(PatchMembershipResponse(actor, t, membershipId, data))
    /\ memberships' = PatchMembershipMemberships(actor, t, membershipId, data)
    /\ UNCHANGED <<calls, accounts, clock, users, teams, pending, now, nextId, outstanding>>

\* UpdateMembershipView.patch of a request that carries the role only
UpdateMembershipResponse(actor, t, membershipId, role) ==
    PatchMembershipResponse(actor, t, membershipId, [role |-> role])

UpdateMembershipMemberships(actor, t, membershipId, role) ==
    PatchMembershipMemberships(actor, t, membershipId, [role |-> role])

UpdateMembership(actor, t, membershipId, role) ==
    PatchMembership(actor, t, membershipId, [role |-> role])

\* team.memberships.filter(user_id=user_id, status='active').exclude(role='witness')
TransferTargets(t, target) ==
    {m \in ActiveMemberships(t, target) : m.role # ROLE_WITNESS}

\* TransferLeadershipView.post: the answer
TransferLeadershipResponse(actor, t, target) ==
    IF ~TeamLive(t) THEN Outcome(404, "team_not_found")
    ELSE IF ~IsLeaderRequest(t, actor) THEN Outcome(403, "leader_only")
    ELSE IF TransferTargets(t, target) = {} THEN Outcome(400, "not_found_or_witness")
    ELSE Outcome(200, "")

\* TransferLeadershipView.post: the two membership saves, in order
TransferWrites(rows, current_leader, new_leader) ==
    SaveRow(SaveRow(rows, [current_leader EXCEPT !.role = ROLE_MEMBER]),
            [new_leader EXCEPT !.role = ROLE_LEADER])

TransferLeadershipMemberships(actor, t, target) ==
    IF Succeeded(TransferLeadershipResponse(actor, t, target))
    THEN TransferWrites(memberships, First(ActiveMemberships(t, actor)),
                        First(TransferTargets(t, target)))
    ELSE memberships

\* TransferLeadershipView.post: team.created_by = new_leader.user
TransferLeadershipTeams(actor, t, target) ==
    IF Succeeded(TransferLeadershipResponse(actor, t, target))
    THEN [teams EXCEPT ![t].created_by = target]
    ELSE teams

TransferLeadership(actor, t, target) ==
    /\ actor \in DOMAIN users
    /\ Succeeded(TransferLeadershipResponse(actor, t, target))
    /\ memberships' = TransferLeadershipMemberships(actor, t, target)
    /\ teams' = TransferLeadershipTeams(actor, t, target)
    /\ UNCHANGED <<calls, accounts, clock, users, pending, now, nextId, outstanding>>

\* PendingInvitation.objects.get(invitation_token=token)
InvitationsByToken(token) == {p \in pending : p.invitation_token = token}

\* PendingInvitation.is_expired
IsExpired(inv) == now > inv.expires_at

\* the same test without the two lower() calls
EmailMismatch_Exact(inv, actor) == inv.email # users[actor]

\* invitation.email.lower() != request.user.email.lower()
EmailMismatch(inv, actor) == Lower(inv.email) # Lower(users[actor])

\* invitation.team.memberships.filter(user=request.user).exclude(status='left')
NonLeftOf(t, u) ==
    {m \in memberships : m.team = t /\ m.user = u /\ m.status # STATUS_LEFT}

\* PendingInvitation.convert_to_membership(user): the TeamMembership it creates
ConvertedRow(inv, u) ==
    MembershipRow(nextId, inv.team, u, inv.role, STATUS_ACTIVE, inv.invited_by,
                  NULL, NULL, NULL, now)

\* ClaimPendingInvitationView.post: the answer
ClaimPendingInvitationResponse(actor, token) ==
    IF InvitationsByToken(token) = {} THEN Outcome(404, "invalid_token")
    ELSE LET inv == First(InvitationsByToken(token)) IN
         IF IsExpired(inv) THEN Outcome(400, "expired")
         ELSE IF EmailMismatch(inv, actor) THEN Outcome(403, "different_email")
         ELSE IF NonLeftOf(inv.team, actor) # {} THEN Outcome(400, "already_member")
         ELSE IF ~ValidateUnique(memberships, ConvertedRow(inv, actor))
         THEN Outcome(500, "unique_team_user")
         ELSE Outcome(201, "")

\* the branches of ClaimPendingInvitationView.post that call invitation.delete()
ClaimDeletes(r) == r.error \in {"expired", "already_member"}

\* the same table, had the conversion kept the record
ClaimPendingInvitationPending_KeepConverted(actor, token) ==
    IF ClaimDeletes(ClaimPendingInvitationResponse(actor, token))
    THEN pending \ InvitationsByToken(token)
    ELSE pending

\* ClaimPendingInvitationView.post: the pending_invitations table afterwards
ClaimPendingInvitationPending(actor, token) ==
    LET r == ClaimPendingInvitationResponse(actor, token) IN
    IF Succeeded(r) \/ ClaimDeletes(r)
    THEN pending \ InvitationsByToken(token)
    ELSE pending

\* ClaimPendingInvitationView.post: the team_memberships table afterwards
ClaimPendingInvitationMemberships(actor, token) ==
    IF Succeeded(ClaimPendingInvitationResponse(actor, token))
    THEN memberships \cup {ConvertedRow(First(InvitationsByToken(token)), actor)}
    ELSE memberships

ClaimPendingInvitation(actor, token) ==
    LET r  == ClaimPendingInvitationResponse(actor, token)
        ok == Succeeded(r)
    IN
    /\ actor \in DOMAIN users
    /\ ok \/ ClaimDeletes(r)
    /\ ok => nextId <= MaxIds
    /\ pending' = ClaimPendingInvitationPending(actor, token)
    /\ memberships' = ClaimPendingInvitationMemberships(actor, token)
    /\ nextId' = IF ok THEN nextId + 1 ELSE nextId
    /\ outstanding' =
           IF ok THEN outstanding \ {<<p.team, p.email>> : p \in InvitationsByToken(token)}
           ELSE outstanding
    /\ UNCHANGED <<calls, accounts, clock, users, teams, now>>

\* ------------------------------------------------------------------ Next
Next ==
    \/ \E e \in Emails : Register(e)
    \/ Tick
    \/ \E a \in UserIds, n \in TeamNames : CreateTeam(a, n)
    \/ \E a \in UserIds, t \in TeamIds, n \in TeamNames : UpdateTeam(a, t, n)
    \/ \E a \in UserIds, t \in TeamIds, pw \in BOOLEAN : DestroyTeam(a, t, pw)
    \/ \E t \in TeamIds : RestoreTeam(t)
    \/ \E a \in UserIds, t \in TeamIds, e \in InviteEmails, r \in ROLE_CHOICES :
           InviteMember(a, t, e, r)
    \/ \E a \in UserIds, k \in Tokens : AcceptInvitation(a, k)
    \/ \E a \in UserIds, k \in Tokens : DeclineInvitation(a, k)
    \/ \E a \in UserIds, t \in TeamIds : LeaveTeam(a, t)
    \/ \E a \in UserIds, t \in TeamIds, u \in UserIds : RemoveMember(a, t, u)
    \/ \E a \in UserIds, t \in TeamIds, i \in Tokens, r \in ROLE_CHOICES :
           UpdateMembership(a, t, i, r)
    \/ \E a \in UserIds, t \in TeamIds, u \in UserIds : TransferLeadership(a, t, u)
    \/ \E a \in UserIds, k \in Tokens : ClaimPendingInvitation(a, k)

Spec == Init /\ [][Next]_vars

\* -------------------------------------------------------- notifications
\* What can go wrong while a handler notifies, after its writes: the mail
\* backend raises (email), Notification.objects.create or the channel
\* layer's group_send raises (realtime).
NotificationFaults == [email : BOOLEAN, realtime : BOOLEAN]

\* teams/emails.py send_*: send_mail sits in try/except and the function
\* returns False; nothing is raised to the view, whatever f.email is.
\* notifications.notify_* -> create_notification: no try/except there or in
\* the views, so what it raises leaves the view and the request answers 500.
NotifiedResponse(r, notifiesRealtime, f) ==
    IF Succeeded(r) /\ notifiesRealtime /\ f.realtime
    THEN Outcome(500, "notification_failed")
    ELSE r

\* InviteMemberView.post: notify_team_invitation is called on the
\* existing-user branch only
InviteMemberNotified(actor, t, rawEmail, role, f) ==
    NotifiedResponse(InviteMemberResponse(actor, t, rawEmail, role),
                     UsersByEmail(Lower(rawEmail)) # {}, f)

\* the teams of the rows a set of rows holds
TeamsOf(rows) == {m.team : m \in rows}

\* "leader_membership = team.get_leader(); if leader_membership:" after the
\* handler's write
HasLeaderIn(rows, ts) ==
    \E m \in rows : m.team \in ts /\ m.role = ROLE_LEADER /\ m.status = STATUS_ACTIVE

\* AcceptInvitationView.post: notify_invitation_accepted
AcceptInvitationNotified(actor, token, f) ==
    NotifiedResponse(AcceptInvitationResponse(actor, token),
                     HasLeaderIn(AcceptInvitationMemberships(actor, token),
                                 TeamsOf(PendingByToken(token))), f)

\* LeaveTeamView.post: notify_member_left
LeaveTeamNotified(actor, t, f) ==
    NotifiedResponse(LeaveTeamResponse(actor, t),
                     HasLeaderIn(LeaveTeamMemberships(actor, t), {t}), f)

\* ClaimPendingInvitationView.post: notify_member_joined
ClaimPendingInvitationNotified(actor, token, f) ==
    NotifiedResponse(ClaimPendingInvitationResponse(actor, token),
                     HasLeaderIn(ClaimPendingInvitationMemberships(actor, token),
                                 TeamsOf(InvitationsByToken(token))), f)

\* ------------------------------------------------------ failing writes
\* No handler of apps/teams runs inside transaction.atomic and
\* ATOMIC_REQUESTS is not set: a write that raises leaves the writes made
\* before it in the database.

\* CreateTeamSerializer.create when TeamMembership.objects.create raises:
\* the tables it leaves
CreateTeamFailing(actor, name) ==
    [teams |-> CreateTeamTeams(actor, name), memberships |-> memberships]

CreateTeamFails(actor, name) ==
    /\ actor \in DOMAIN users
    /\ Succeeded(CreateTeamResponse(actor, name))
    /\ Len(teams) < MaxTeams
    /\ teams' = CreateTeamFailing(actor, name).teams
    /\ memberships' = CreateTeamFailing(actor, name).memberships
    /\ UNCHANGED <<calls, accounts, clock, users, pending, now, nextId, outstanding>>

\* how many of its saves TransferLeadershipView.post has made when the next
\* one raises
TransferSavesDone == {1, 2}

\* TransferLeadershipView.post when the save after the first `done` ones
\* raises: the tables it leaves
TransferLeadershipFailing(actor, t, target, done) ==
    LET current_leader == First(ActiveMemberships(t, actor))
        new_leader     == First(TransferTargets(t, target))
    IN  [teams |-> teams,
         memberships |->
             IF done = 1
             THEN SaveRow(memberships, [current_leader EXCEPT !.role = ROLE_MEMBER])
             ELSE TransferWrites(memberships, current_leader, new_leader)]

TransferLeadershipFails(actor, t, target, done) ==
    /\ actor \in DOMAIN users
    /\ Succeeded(TransferLeadershipResponse(actor, t, target))
    /\ teams' = TransferLeadershipFailing(actor, t, target, done).teams
    /\ memberships' = TransferLeadershipFailing(actor, t, target, done).memberships
    /\ UNCHANGED <<calls, accounts, clock, users, pending, now, nextId, outstanding>>

NextFaults ==
    \/ Next
    \/ \E a \in UserIds, n \in TeamNames : CreateTeamFails(a, n)
    \/ \E a \in UserIds, t \in TeamIds, u \in UserIds, d \in TransferSavesDone :
           TransferLeadershipFails(a, t, u, d)

SpecFaults == Init /\ [][NextFaults]_vars

\* -------------------------------------------------------------- accounts
\* apps/accounts timestamps are counted in hours; the clock starts at 1 so
\* that 0 is the null timestamp.
\* timedelta(hours=1)
RestorationCodeTTL == 1
\* timedelta(days=30)
DeletionWindow == 720
\* how far the clock may jump at once: an hour, or to an hour before 30 days
ClockSteps == {1, 719}

\* ''.join(random.choices(string.digits, k=6))
RestorationCodes == {"111111", "222222"}
\* request.data.get('code'), request.data.get('email')
CodeInputs == RestorationCodes \cup {""}

\* soft_delete() that leaves is_active alone
SoftDeleteUser_KeepsActive(acc) ==
    [acc EXCEPT !.deleted_at = clock]

\* User.soft_delete()
SoftDeleteUser(acc) ==
    [acc EXCEPT !.deleted_at = clock, !.is_active = FALSE]

\* User.restore()
RestoreUser(acc) ==
    [acc EXCEPT !.deleted_at = NULL, !.is_active = TRUE]

\* User.can_be_permanently_deleted
CanBePermanentlyDeleted(acc) ==
    IF acc.deleted_at = NULL THEN FALSE
    ELSE clock >= acc.deleted_at + DeletionWindow

\* User.objects.get(email=email, deleted_at__isnull=False)
DeletedByEmail(email) ==
    {u \in DOMAIN users : users[u] = email /\ accounts[u].deleted_at # NULL}

\* time passes for apps/accounts
ClockTick(d) ==
    /\ ((clock - 1) % 719) + ((clock - 1) \div 719) < MaxTicks
    /\ clock' = clock + d
    /\ UNCHANGED <<calls, users, teams, memberships, pending, now, nextId, outstanding, accounts>>

\* User.soft_delete() and User.restore() called on the model
SoftDeleteUserCall(u) ==
    /\ u \in DOMAIN users
    /\ accounts' = [accounts EXCEPT ![u] = SoftDeleteUser(accounts[u])]
    /\ UNCHANGED <<calls, users, teams, memberships, pending, now, nextId, outstanding, clock>>

RestoreUserCall(u) ==
    /\ u \in DOMAIN users
    /\ accounts' = [accounts EXCEPT ![u] = RestoreUser(accounts[u])]
    /\ UNCHANGED <<calls, users, teams, memberships, pending, now, nextId, outstanding, clock>>

\* DeleteAccountView.post: the answer
DeleteAccountResponse(u, passwordOk) ==
    IF ~passwordOk THEN Outcome(400, "password") ELSE Outcome(200, "")

\* DeleteAccountView.post: user.soft_delete()
DeleteAccountAccounts(u, passwordOk) ==
    IF Succeeded(DeleteAccountResponse(u, passwordOk))
    THEN [accounts EXCEPT ![u] = SoftDeleteUser(accounts[u])]
    ELSE accounts

\* DeleteAccountView.post; IsAuthenticated: JWT authentication turns an
\* identity with is_active=False away
DeleteAccount(u, passwordOk) ==
    /\ u \in DOMAIN users
    /\ accounts[u].is_active
    /\ Succeeded(DeleteAccountResponse(u, passwordOk))
    /\ accounts' = DeleteAccountAccounts(u, passwordOk)
    /\ UNCHANGED <<calls, users, teams, memberships, pending, now, nextId, outstanding, clock>>

\* RequestAccountRestorationView.post: the answer
RequestAccountRestorationResponse(email) ==
    IF email = "" THEN Outcome(400, "email_required")
    ELSE IF DeletedByEmail(email) = {} THEN Outcome(400, "no_deleted_account")
    ELSE IF \E u \in DeletedByEmail(email) : CanBePermanentlyDeleted(accounts[u])
    THEN Outcome(400, "window_passed")
    ELSE Outcome(200, "")

\* RequestAccountRestorationView.post: the code it stores
RequestAccountRestorationAccounts(email, code) ==
    IF Succeeded(RequestAccountRestorationResponse(email))
    THEN [u \in DOMAIN accounts |->
              IF u \in DeletedByEmail(email)
              THEN [accounts[u] EXCEPT
                        !.restoration_code = code,
                        !.restoration_code_expires_at = clock + RestorationCodeTTL]
              ELSE accounts[u]]
    ELSE accounts

RequestAccountRestoration(email, code) ==
    /\ Succeeded(RequestAccountRestorationResponse(email))
    /\ accounts' = RequestAccountRestorationAccounts(email, code)
    /\ UNCHANGED <<calls, users, teams, memberships, pending, now, nextId, outstanding, clock>>

\* RestoreAccountView.post: the answer
RestoreAccountResponse(email, code) ==
    IF email = "" \/ code = "" THEN Outcome(400, "required")
    ELSE IF DeletedByEmail(email) = {} THEN Outcome(400, "no_deleted_account")
    ELSE LET acc == accounts[CHOOSE u \in DeletedByEmail(email) : TRUE] IN
         IF acc.restoration_code = "" \/ acc.restoration_code # code
         THEN Outcome(400, "invalid_code")
         ELSE IF acc.restoration_code_expires_at = NULL
                 \/ clock > acc.restoration_code_expires_at
         THEN Outcome(400, "expired")
         ELSE Outcome(200, "")

\* the same without the lines that clear the code
RestoreAccountAccounts_KeepsCode(email, code) ==
    IF Succeeded(RestoreAccountResponse(email, code))
    THEN [u \in DOMAIN accounts |->
              IF u \in DeletedByEmail(email) THEN RestoreUser(accounts[u])
              ELSE accounts[u]]
    ELSE accounts

\* RestoreAccountView.post: user.restore(), then the code is cleared
RestoreAccountAccounts(email, code) ==
    IF Succeeded(RestoreAccountResponse(email, code))
    THEN [u \in DOMAIN accounts |->
              IF u \in DeletedByEmail(email)
              THEN [RestoreUser(accounts[u]) EXCEPT
                        !.restoration_code = "",
                        !.restoration_code_expires_at = NULL]
              ELSE accounts[u]]
    ELSE accounts

RestoreAccount(email, code) ==
    /\ Succeeded(RestoreAccountResponse(email, code))
    /\ accounts' = RestoreAccountAccounts(email, code)
    /\ UNCHANGED <<calls, users, teams, memberships, pending, now, nextId, outstanding, clock>>

NextAccounts ==
    \/ \E e \in Emails : Register(e)
    \/ \E d \in ClockSteps : ClockTick(d)
    \/ \E u \in UserIds : SoftDeleteUserCall(u)
    \/ \E u \in UserIds : RestoreUserCall(u)
    \/ \E u \in UserIds, pw \in BOOLEAN : DeleteAccount(u, pw)
    \/ \E e \in InviteEmails, c \in RestorationCodes : RequestAccountRestoration(e, c)
    \/ \E e \in InviteEmails, c \in CodeInputs : RestoreAccount(e, c)

SpecAccounts == Init /\ [][NextAccounts]_vars

\* ------------------------------------------------- overlapping requests
\* The views run in autocommit mode without locks: a request reads, keeps
\* what it read in memory and writes later, and the requests of other
\* workers run in between. A request in flight is an element of calls.
MaxCalls == 2

\* a request in flight: the view (op), its position (pc), the uuid/token it
\* generated (id), its arguments, and the ids of the rows it holds in memory
Call(op, pc, id, actor, t, email, role, user, row, row2) ==
    [op |-> op, pc |-> pc, id |-> id, actor |-> actor, team |-> t,
     email |-> email, role |-> role, user |-> user, row |-> row, row2 |-> row2]

\* the request moves on to position pc
Moved(c, pc) == (calls \ {c}) \cup {[c EXCEPT !.pc = pc]}

\* INSERT INTO team_memberships without its UNIQUE indexes
InsertMembership_Unchecked(rows, row) == rows \cup {row}

\* INSERT INTO team_memberships: the UNIQUE (team, user) index of
\* unique_together and the UNIQUE invitation_token column reject a duplicate
\* (IntegrityError)
InsertMembership(rows, row) ==
    IF ValidateUnique(rows, row) THEN rows \cup {row} ELSE rows

\* INSERT INTO pending_invitations: the store rejects a second row for the
\* same (team, invitation email)
InsertPending(rows, row) ==
    IF \E p \in rows : p.team = row.team /\ p.email = row.email
    THEN rows ELSE rows \cup {row}

\* save(update_fields=['role', 'updated_at']): UPDATE ... SET role WHERE id
SaveRole(rows, id, role) ==
    {IF r.id = id THEN [r EXCEPT !.role = role] ELSE r : r \in rows}

\* leave_team(): save(update_fields=['status', 'left_at', 'updated_at'])
SaveLeft(rows, id) ==
    {IF r.id = id THEN [r EXCEPT !.status = STATUS_LEFT, !.left_at = now] ELSE r
        : r \in rows}

\* InviteMemberView.post up to the token: the team, the leader test, the
\* e-mail and role tests and the two "already invited" tests
InviteChecks(actor, t, rawEmail, role) ==
    /\ actor \in DOMAIN users
    /\ Cardinality(calls) < MaxCalls
    /\ nextId <= MaxIds
    /\ InviteMemberResponse(actor, t, rawEmail, role).code \in {201, 500}
    /\ calls' = calls \cup {Call("invite", "lookup", nextId, actor, t,
                                 Lower(rawEmail), role, NULL, NULL, NULL)}
    /\ nextId' = nextId + 1
    /\ UNCHANGED <<users, teams, memberships, pending, now, outstanding, accounts, clock>>

\* InviteMemberView.post: User.objects.get(email=email)
InviteLookup(c) ==
    /\ c.op = "invite" /\ c.pc = "lookup"
    /\ calls' = IF UsersByEmail(c.email) # {}
                THEN (calls \ {c}) \cup
                         {[c EXCEPT !.pc = "clean",
                                    !.user = CHOOSE u \in UsersByEmail(c.email) : TRUE]}
                ELSE Moved(c, "insert_pending")
    /\ UNCHANGED <<users, teams, memberships, pending, now, nextId, outstanding, accounts, clock>>

\* the row TeamMembership.objects.create() is given
InviteCallRow(c) ==
    MembershipRow(c.id, c.team, c.user, c.role, STATUS_PENDING, c.actor, c.id,
                  now, now + InvitationTTL, NULL)

\* TeamMembership.save(): full_clean() reads the table for validate_unique;
\* a ValidationError ends the request (500)
InviteClean(c) ==
    /\ c.op = "invite" /\ c.pc = "clean"
    /\ calls' = IF ValidateUnique(memberships, InviteCallRow(c))
                THEN Moved(c, "insert") ELSE calls \ {c}
    /\ UNCHANGED <<users, teams, memberships, pending, now, nextId, outstanding, accounts, clock>>

\* TeamMembership.save(): the INSERT
InviteInsert(c) ==
    /\ c.op = "invite" /\ c.pc = "insert"
    /\ memberships' = InsertMembership(memberships, InviteCallRow(c))
    /\ outstanding' = IF memberships' # memberships
                      THEN outstanding \cup {<<c.team, c.email>>} ELSE outstanding
    /\ calls' = calls \ {c}
    /\ UNCHANGED <<users, teams, pending, now, nextId, accounts, clock>>

\* PendingInvitation.objects.create(): the INSERT
InviteInsertPending(c) ==
    /\ c.op = "invite" /\ c.pc = "insert_pending"
    /\ pending' = InsertPending(pending,
                      PendingRow(c.id, c.team, c.email, c.role, c.actor, c.id,
                                 now + InvitationTTL))
    /\ outstanding' = IF pending' # pending
                      THEN outstanding \cup {<<c.team, c.email>>} ELSE outstanding
    /\ calls' = calls \ {c}
    /\ UNCHANGED <<users, teams, memberships, now, nextId, accounts, clock>>

\* TransferLeadershipView.post: the reads (team, current_leader, new_leader)
TransferRead(actor, t, target) ==
    /\ actor \in DOMAIN users
    /\ Cardinality(calls) < MaxCalls
    /\ Succeeded(TransferLeadershipResponse(actor, t, target))
    /\ calls' = calls \cup {Call("transfer", "save1", NULL, actor, t, "", "", target,
                                 First(ActiveMemberships(t, actor)).id,
                                 First(TransferTargets(t, target)).id)}
    /\ UNCHANGED <<users, teams, memberships, pending, now, nextId, outstanding, accounts, clock>>

\* current_leader.role = member; current_leader.save(update_fields=['role', ..])
TransferSave1(c) ==
    /\ c.op = "transfer" /\ c.pc = "save1"
    /\ memberships' = SaveRole(memberships, c.row, ROLE_MEMBER)
    /\ calls' = Moved(c, "save2")
    /\ UNCHANGED <<users, teams, pending, now, nextId, outstanding, accounts, clock>>

\* new_leader.role = leader; new_leader.save(update_fields=['role', ..])
TransferSave2(c) ==
    /\ c.op = "transfer" /\ c.pc = "save2"
    /\ memberships' = SaveRole(memberships, c.row2, ROLE_LEADER)
    /\ calls' = Moved(c, "save3")
    /\ UNCHANGED <<users, teams, pending, now, nextId, outstanding, accounts, clock>>

\* team.created_by = new_leader.user; team.save(update_fields=['created_by', ..])
TransferSave3(c) ==
    /\ c.op = "transfer" /\ c.pc = "save3"
    /\ teams' = [teams EXCEPT ![c.team].created_by = c.user]
    /\ calls' = calls \ {c}
    /\ UNCHANGED <<users, memberships, pending, now, nextId, outstanding, accounts, clock>>

\* LeaveTeamView.post: the reads (team, membership) and the leader test
LeaveRead(actor, t) ==
    /\ actor \in DOMAIN users
    /\ Cardinality(calls) < MaxCalls
    /\ Succeeded(LeaveTeamResponse(actor, t))
    /\ calls' = calls \cup {Call("leave", "save", NULL, actor, t, "", "", actor,
                                 First(ActiveMemberships(t, actor)).id, NULL)}
    /\ UNCHANGED <<users, teams, memberships, pending, now, nextId, outstanding, accounts, clock>>

\* RemoveMemberView.post: the reads (team, leader_membership, membership)
RemoveRead(actor, t, target) ==
    /\ actor \in DOMAIN users
    /\ Cardinality(calls) < MaxCalls
    /\ Succeeded(RemoveMemberResponse(actor, t, target))
    /\ calls' = calls \cup {Call("remove", "save", NULL, actor, t, "", "", target,
                                 First(Removable(t, target)).id, NULL)}
    /\ UNCHANGED <<users, teams, memberships, pending, now, nextId, outstanding, accounts, clock>>

\* LeaveTeamView.post / RemoveMemberView.post: membership.leave_team()
LeaveSave(c) ==
    /\ c.op \in {"leave", "remove"} /\ c.pc = "save"
    /\ memberships' = SaveLeft(memberships, c.row)
    /\ calls' = calls \ {c}
    /\ UNCHANGED <<users, teams, pending, now, nextId, outstanding, accounts, clock>>

\* a request that overlaps no other request
Alone(A) == calls = {} /\ A

NextConcurrent ==
    \/ \E e \in Emails : Alone(Register(e))
    \/ \E u \in UserIds, n \in TeamNames : Alone(CreateTeam(u, n))
    \/ \E u \in UserIds, k \in Tokens : Alone(AcceptInvitation(u, k))
    \/ \E u \in UserIds, t \in TeamIds, e \in InviteEmails, r \in ROLE_CHOICES :
           InviteChecks(u, t, e, r)
    \/ \E u \in UserIds, t \in TeamIds, v \in UserIds : TransferRead(u, t, v)
    \/ \E u \in UserIds, t \in TeamIds : LeaveRead(u, t)
    \/ \E u \in UserIds, t \in TeamIds, v \in UserIds : RemoveRead(u, t, v)
    \/ \E c \in calls :
           \/ InviteLookup(c)
           \/ InviteClean(c)
           \/ InviteInsert(c)
           \/ InviteInsertPending(c)
           \/ TransferSave1(c)
           \/ TransferSave2(c)
           \/ TransferSave3(c)
           \/ LeaveSave(c)

SpecConcurrent == Init /\ [][NextConcurrent]_vars

\* --------------------------------------------- guardians and contacts
\* agent settings (an override set, a default flag switched off) that may
\* differ from their value at creation at once, over the whole table
MaxSettings == 1

\* the requests UpdateMembershipView.patch is given here: one field each
UpdateData ==
    {[role |-> r] : r \in ROLE_CHOICES}
        \cup {[is_default_guardian |-> b] : b \in BOOLEAN}
        \cup {[is_default_emergency_contact |-> b] : b \in BOOLEAN}

\* the agent settings of a table that differ from their value at creation
SettingsChanged(rows) ==
    Cardinality({m \in rows : m.guardian_override # NULL})
        + Cardinality({m \in rows : m.emergency_contact_override # NULL})
        + Cardinality({m \in rows : ~m.is_default_guardian})
        + Cardinality({m \in rows : ~m.is_default_emergency_contact})

\* membership.guardian_override = g; membership.emergency_contact_override = e
OverriddenRow(m, g, e) ==
    [m EXCEPT !.guardian_override = g, !.emergency_contact_override = e]

\* membership.save() after that: full_clean() raises for a witness
SaveOverridesAccepted(m, g, e) == Clean(OverriddenRow(m, g, e))

SaveOverridesMemberships(m, g, e) ==
    IF SaveOverridesAccepted(m, g, e)
    THEN SaveRow(memberships, OverriddenRow(m, g, e))
    ELSE memberships

\* The overrides are written through the model only (TeamMembershipAdmin,
\* or code calling save() as tests.py does): no view of the API writes them.
SaveOverrides(m, g, e) ==
    /\ m \in memberships
    /\ g \in DOMAIN users \cup {NULL} /\ e \in DOMAIN users \cup {NULL}
    /\ SaveOverridesAccepted(m, g, e)
    /\ memberships' = SaveOverridesMemberships(m, g, e)
    /\ SettingsChanged(memberships') <= MaxSettings
    /\ UNCHANGED <<calls, accounts, clock, users, teams, pending, now, nextId, outstanding>>

\* Team.get_leader() on a table: the first active leader row, or None
GetLeaderUser(rows, t) ==
    LET leaders == {l \in rows : l.team = t /\ l.role = ROLE_LEADER
                                  /\ l.status = STATUS_ACTIVE}
    IN  IF leaders = {} THEN NULL ELSE First(leaders).user

\* TeamMembership.get_guardian()
GetGuardian(rows, m) ==
    IF m.guardian_override # NULL THEN m.guardian_override
    ELSE IF m.is_default_guardian THEN GetLeaderUser(rows, m.team)
    ELSE NULL

\* TeamMembership.get_emergency_contact()
GetEmergencyContact(rows, m) ==
    IF m.emergency_contact_override # NULL THEN m.emergency_contact_override
    ELSE IF m.is_default_emergency_contact THEN GetLeaderUser(rows, m.team)
    ELSE NULL

\* every identity of EmailSeq may register here
AgentIds == 1..Len(EmailSeq)

NextAgents ==
    \/ \E e \in Emails : RegisterWithin(Len(EmailSeq), e)
    \/ \E a \in AgentIds : CreateTeam(a, "t")
    \/ \E a \in AgentIds, t \in TeamIds, e \in InviteEmails, r \in ROLE_CHOICES :
           InviteMember(a, t, e, r)
    \/ \E a \in AgentIds, k \in Tokens : AcceptInvitation(a, k)
    \/ \E a \in AgentIds, t \in TeamIds, i \in Tokens, d \in UpdateData :
           PatchMembership(a, t, i, d) /\ SettingsChanged(memberships') <= MaxSettings
    \/ \E a \in AgentIds, t \in TeamIds, u \in AgentIds : TransferLeadership(a, t, u)
    \/ \E m \in memberships, g \in AgentIds \cup {NULL}, e \in AgentIds \cup {NULL} :
           SaveOverrides(m, g, e)

SpecAgents == Init /\ [][NextAgents]_vars

\* ------------------------------------------------------------ type check
TypeOK ==
    /\ now \in 1..MaxTime
    /\ nextId \in 1..(MaxIds + 1)
    /\ Len(users) <= Len(EmailSeq)
    /\ Len(teams) <= MaxTeams
    /\ \A m \in memberships :
           /\ m.role \in ROLE_CHOICES
           /\ m.status \in STATUS_CHOICES
           /\ m.team \in DOMAIN teams
           /\ m.user \in DOMAIN users
    /\ \A p \in pending : p.team \in DOMAIN teams /\ p.email \in Emails

\* ---------------------------------------------------------------- claims
\* identity u holds an active leader Membership on team t
ActiveLeader(t, u) ==
    \E m \in memberships :
        m.team = t /\ m.user = u /\ m.role = ROLE_LEADER /\ m.status = STATUS_ACTIVE

\* the active leader rows of team t in a team_memberships table
LeadersIn(rows, t) ==
    {m \in rows : m.team = t /\ m.role = ROLE_LEADER /\ m.status = STATUS_ACTIVE}

\* the row of identity u on team t in a team_memberships table
RowsIn(rows, t, u) == {m \in rows : m.team = t /\ m.user = u}

\* C1: every team has exactly one Membership with role=leader and
\* status=active, in every state the operations can reach.
C1_ExactlyOneLeader ==
    \A t \in DOMAIN teams : Cardinality(GetLeader(t)) = 1

\* C2: Team.createdBy is the user of the Membership that holds role=leader
\* and status=active on the team, in every state the operations can reach.
C2_CreatedByIsLeader ==
    \A t \in DOMAIN teams :
        {m.user : m \in GetLeader(t)} = {teams[t].created_by}

\* the target of a transfer has an active Membership that is not a witness
C3_ValidTarget(t, u) ==
    \E m \in memberships :
        m.team = t /\ m.user = u /\ m.status = STATUS_ACTIVE /\ m.role # ROLE_WITNESS

\* C3: transferLeadership by the active leader of a team (not soft-deleted)
\* to a witness, a non-active or an absent target fails and writes nothing;
\* to a valid target it succeeds, the old leader's row has role member, the
\* target's row has role leader, createdBy is the target, and the team has
\* exactly one leader before and after.
C3_TransferLeadership ==
    \A a \in DOMAIN users, t \in DOMAIN teams, u \in UserIds :
        (ActiveLeader(t, a) /\ TeamLive(t)) =>
            LET r     == TransferLeadershipResponse(a, t, u)
                rows  == TransferLeadershipMemberships(a, t, u)
                after == TransferLeadershipTeams(a, t, u)
            IN  IF ~C3_ValidTarget(t, u)
                THEN ~Succeeded(r) /\ rows = memberships /\ after = teams
                ELSE /\ Succeeded(r)
                     /\ \A m \in RowsIn(rows, t, a) : m.role = ROLE_MEMBER
                     /\ \A m \in RowsIn(rows, t, u) : m.role = ROLE_LEADER
                     /\ after[t].created_by = u
                     /\ Cardinality(GetLeader(t)) = 1
                     /\ Cardinality(LeadersIn(rows, t)) = 1

\* a token that has been issued and that no pending Membership carries
C4_Spent(k) == k < nextId /\ PendingByToken(k) = {}

\* C4 (effect): an acceptInvitation that succeeds is the invitee's, and it
\* rewrites exactly the invited row: status active, joinedAt = now,
\* invitationToken null, everything else as it was.
C4_Effect ==
    \A a \in DOMAIN users, k \in Tokens :
        Succeeded(AcceptInvitationResponse(a, k)) =>
            \E m \in memberships :
                /\ m.invitation_token = k /\ m.status = STATUS_PENDING /\ m.user = a
                /\ now # NULL
                /\ AcceptInvitationMemberships(a, k) =
                       (memberships \ {m}) \cup
                           {[m EXCEPT !.status = STATUS_ACTIVE, !.joined_at = now,
                                      !.invitation_token = NULL]}

\* C4 (refusal): with a token that matches no pending row, acceptInvitation
\* fails for everyone and writes nothing.
C4_Refused ==
    \A a \in DOMAIN users, k \in Tokens :
        PendingByToken(k) = {} =>
            /\ ~Succeeded(AcceptInvitationResponse(a, k))
            /\ AcceptInvitationMemberships(a, k) = memberships

\* C4 (later): a successful acceptInvitation spends its token, and a spent
\* token stays spent whatever happens next.
C4_Later ==
    \A k \in Tokens :
        /\ (\E a \in DOMAIN users : AcceptInvitation(a, k)) => C4_Spent(k)'
        /\ C4_Spent(k) => C4_Spent(k)'

\* C4: a successful acceptInvitation(token) by the invitee sets status to
\* active, sets joinedAt and clears invitationToken; from then on every
\* acceptInvitation with that token fails and changes nothing.
C4_AcceptInvitation ==
    [](C4_Effect /\ C4_Refused) /\ [][C4_Later]_vars

\* an invited Membership has been accepted
C4_Witness ==
    \E m \in memberships :
        /\ m.status = STATUS_ACTIVE /\ m.invitation_sent_at # NULL
        /\ m.joined_at # NULL /\ m.invitation_token = NULL
        /\ C4_Spent(m.id)

\* C5: a Membership carries an invitationToken only while its status is
\* pending.
C5_TokenOnlyWhilePending ==
    \A m \in memberships : m.invitation_token # NULL => m.status = STATUS_PENDING

\* the error of the two conflict tests of InviteMemberView.post
C6_Conflict(r) ==
    r.code = 400 /\ r.error \in {"already_member", "already_invited"}

\* a second inviteMember(team t, email) by the active leader a is turned
\* away with the conflict error and creates nothing
C6_SecondRefused(a, t, raw) ==
    \A role \in {ROLE_MEMBER, ROLE_WITNESS} :
        /\ C6_Conflict(InviteMemberResponse(a, t, raw, role))
        /\ InviteMemberMemberships(a, t, raw, role) = memberships
        /\ InviteMemberPending(a, t, raw, role) = pending

\* C6 as stated: after a successful inviteMember for (team, email) that was
\* neither accepted nor declined, every further inviteMember for it by the
\* team's leader fails with the conflict error and creates nothing.
C6_Original ==
    \A a \in DOMAIN users, t \in DOMAIN teams, raw \in Emails :
        (<<t, Lower(raw)>> \in outstanding /\ ActiveLeader(t, a) /\ TeamLive(t))
            => C6_SecondRefused(a, t, raw)

\* the invitation for (t, email) is still there: as a pending Membership of
\* the Identity with that e-mail, or as a Pending Invitation
C6_OpenMembership(t, email) ==
    \E m \in memberships :
        m.team = t /\ users[m.user] = email /\ m.status = STATUS_PENDING

C6_OpenInvitation(t, email) ==
    \E p \in pending : p.team = t /\ p.email = email

\* C6: while the pending Membership or the Pending Invitation that a
\* successful inviteMember created for (team, email) still exists, every
\* further inviteMember for (team, email) by the team's active leader fails
\* with the conflict error and creates no Membership and no Pending
\* Invitation.
C6_SecondInvite ==
    \A t \in DOMAIN teams, raw \in Emails :
        (C6_OpenMembership(t, Lower(raw)) \/ C6_OpenInvitation(t, Lower(raw))) =>
            /\ <<t, Lower(raw)>> \in outstanding
            /\ \A a \in DOMAIN users :
                   (ActiveLeader(t, a) /\ TeamLive(t)) => C6_SecondRefused(a, t, raw)

\* one team holds an open invitation of each kind, and its leader asks again
C6_Witness ==
    \E t \in DOMAIN teams, a \in DOMAIN users, e1 \in Emails, e2 \in Emails :
        /\ ActiveLeader(t, a) /\ TeamLive(t)
        /\ C6_OpenMembership(t, Lower(e1)) /\ C6_OpenInvitation(t, Lower(e2))
        /\ InviteMemberResponse(a, t, e1, ROLE_MEMBER).error = "already_member"
        /\ InviteMemberResponse(a, t, e2, ROLE_MEMBER).error = "already_invited"

\* identity a has an active Membership on team t whose role is not leader
C7_MayLeave(a, t) ==
    \E m \in memberships :
        m.team = t /\ m.user = a /\ m.status = STATUS_ACTIVE /\ m.role # ROLE_LEADER

\* C7 as stated: leaveTeam succeeds exactly when the identity has an active
\* Membership on the team whose role is not leader.
C7_Original ==
    \A a \in DOMAIN users, t \in DOMAIN teams :
        Succeeded(LeaveTeamResponse(a, t)) <=> C7_MayLeave(a, t)

\* C7: on a team that is not soft-deleted, leaveTeam(identity, team)
\* succeeds exactly when the identity has an active Membership on the team
\* whose role is not leader, and then rewrites that row to status=left,
\* leftAt=now and nothing else; when the role is leader it fails with the
\* leader-cannot-leave error, and whenever it fails (leader, no active
\* Membership, soft-deleted team) no Membership changes.
C7_LeaveTeam ==
    \A a \in DOMAIN users, t \in DOMAIN teams :
        LET r    == LeaveTeamResponse(a, t)
            rows == LeaveTeamMemberships(a, t)
        IN  IF TeamLive(t) /\ C7_MayLeave(a, t)
            THEN /\ Succeeded(r)
                 /\ now # NULL
                 /\ \E m \in memberships :
                        /\ m.team = t /\ m.user = a /\ m.status = STATUS_ACTIVE
                        /\ rows = (memberships \ {m}) \cup
                                      {[m EXCEPT !.status = STATUS_LEFT, !.left_at = now]}
            ELSE /\ ~Succeeded(r)
                 /\ rows = memberships
                 /\ (TeamLive(t) /\ ActiveLeader(t, a)) => r.error = "leader_cannot_leave"

\* a member who may leave and does, next to a leader who may not
C7_Witness ==
    \E a \in DOMAIN users, b \in DOMAIN users, t \in DOMAIN teams :
        /\ Succeeded(LeaveTeamResponse(a, t))
        /\ LeaveTeamMemberships(a, t) # memberships
        /\ LeaveTeamResponse(b, t).error = "leader_cannot_leave"

\* the e-mail of identity a differs from the invitation's, letter case aside
C8_Differs(inv, a) == Lower(inv.email) # Lower(users[a])

\* claimPendingInvitation(a, k) leaves the Pending Invitation in place
C8_Kept(a, k) == ClaimPendingInvitationPending(a, k) = pending

\* C8 as stated: a claim by an identity whose e-mail differs from the
\* invitation's always fails with PermissionDenied and keeps the record,
\* and every other failing claim of an existing invitation deletes it.
C8_Original ==
    \A a \in DOMAIN users, k \in Tokens :
        \A inv \in InvitationsByToken(k) :
            LET r == ClaimPendingInvitationResponse(a, k) IN
            /\ C8_Differs(inv, a) => (r.code = 403 /\ C8_Kept(a, k))
            /\ (~Succeeded(r) /\ ~C8_Differs(inv, a)) => ~C8_Kept(a, k)

\* C8: a claim of a Pending Invitation that has not expired, by an identity
\* whose e-mail differs (case-insensitively) from the invitation's, fails
\* with PermissionDenied and writes nothing; PermissionDenied is given in
\* that case only; and of the branches that refuse a claim (400, 403) it is
\* the only one that keeps the record: the expired branch (taken first,
\* whatever the e-mail) and the already-a-non-left-member branch delete the
\* Pending Invitation and create no Membership.
C8_ClaimMismatch ==
    \A a \in DOMAIN users, k \in Tokens :
        \A inv \in InvitationsByToken(k) :
            LET r == ClaimPendingInvitationResponse(a, k) IN
            /\ (r.code = 403) <=> (C8_Differs(inv, a) /\ now <= inv.expires_at)
            /\ (r.code = 403) =>
                   /\ r.error = "different_email"
                   /\ C8_Kept(a, k)
                   /\ ClaimPendingInvitationMemberships(a, k) = memberships
            /\ (r.code = 400) =>
                   /\ r.error \in {"expired", "already_member"}
                   /\ ClaimPendingInvitationPending(a, k) = pending \ {inv}
                   /\ ClaimPendingInvitationMemberships(a, k) = memberships
            /\ (r.error = "expired") <=> (now > inv.expires_at)

\* an unexpired invitation met by a stranger and by an identity whose e-mail
\* matches but who is on the team already
C8_Witness ==
    \E a \in DOMAIN users, b \in DOMAIN users, k \in Tokens :
        /\ ClaimPendingInvitationResponse(a, k).error = "different_email"
        /\ ClaimPendingInvitationResponse(b, k).error = "already_member"

\* a token that has been issued and that no Pending Invitation carries
C9_Gone(k) == k < nextId /\ InvitationsByToken(k) = {}

\* C9 (effect): a successful claimPendingInvitation(a, k) deletes the
\* Pending Invitation with token k and adds exactly one Membership, the only
\* one for (team, a): status active, joinedAt = now, role the invitation's.
C9_Effect ==
    \A a \in DOMAIN users, k \in Tokens :
        Succeeded(ClaimPendingInvitationResponse(a, k)) =>
            \E inv \in pending :
                /\ inv.invitation_token = k
                /\ ClaimPendingInvitationPending(a, k) = pending \ {inv}
                /\ LET rows == ClaimPendingInvitationMemberships(a, k) IN
                   /\ memberships \subseteq rows
                   /\ Cardinality(rows \ memberships) = 1
                   /\ rows \ memberships = RowsIn(rows, inv.team, a)
                   /\ \A m \in rows \ memberships :
                          /\ m.status = STATUS_ACTIVE
                          /\ m.joined_at = now /\ now # NULL
                          /\ m.role = inv.role
                          /\ m.invitation_token = NULL

\* C9 (refusal): with a token that no Pending Invitation carries, the claim
\* fails for everyone and creates no Membership.
C9_Refused ==
    \A a \in DOMAIN users, k \in Tokens :
        InvitationsByToken(k) = {} =>
            /\ ~Succeeded(ClaimPendingInvitationResponse(a, k))
            /\ ClaimPendingInvitationMemberships(a, k) = memberships
            /\ ClaimPendingInvitationPending(a, k) = pending

\* C9 (later): a claim that went through leaves its token without a Pending
\* Invitation, and such a token never gets one again.
C9_Later ==
    \A k \in Tokens :
        /\ (\E a \in DOMAIN users : ClaimPendingInvitation(a, k)) => C9_Gone(k)'
        /\ C9_Gone(k) => C9_Gone(k)'

\* C9: a Pending Invitation is converted exactly once: a successful
\* claimPendingInvitation(identity, token) deletes it and creates one active
\* Membership for (team, identity) with joinedAt set and the invitation's
\* role; no later claim with that token creates another Membership.
C9_ConvertedOnce ==
    [](C9_Effect /\ C9_Refused) /\ [][C9_Later]_vars

\* a Pending Invitation has been converted
C9_Witness ==
    /\ \E m \in memberships :
           /\ m.status = STATUS_ACTIVE /\ m.joined_at # NULL
           /\ m.invitation_sent_at = NULL /\ m.invited_by # NULL
    /\ \E k \in Tokens : C9_Gone(k)

\* the answers of the six leader-only operations to the requests of identity
\* a on team t, over every value of the other arguments
C10_Answers(a, t) ==
    {InviteMemberResponse(a, t, e, r) : e \in InviteEmails, r \in ROLE_CHOICES}
        \cup {RemoveMemberResponse(a, t, u) : u \in UserIds}
        \cup {TransferLeadershipResponse(a, t, u) : u \in UserIds}
        \cup {UpdateMembershipResponse(a, t, i, r) : i \in Tokens, r \in ROLE_CHOICES}
        \cup {UpdateTeamResponse(a, t)}
        \cup {DestroyTeamResponse(a, t, pw) : pw \in BOOLEAN}

\* none of the six operations, asked by identity a on team t, writes a row
C10_NothingWritten(a, t) ==
    /\ \A e \in InviteEmails, r \in ROLE_CHOICES :
           /\ InviteMemberMemberships(a, t, e, r) = memberships
           /\ InviteMemberPending(a, t, e, r) = pending
    /\ \A u \in UserIds :
           /\ RemoveMemberMemberships(a, t, u) = memberships
           /\ TransferLeadershipMemberships(a, t, u) = memberships
           /\ TransferLeadershipTeams(a, t, u) = teams
    /\ \A i \in Tokens, r \in ROLE_CHOICES :
           UpdateMembershipMemberships(a, t, i, r) = memberships
    /\ \A n \in TeamNames : UpdateTeamTeams(a, t, n) = teams
    /\ \A pw \in BOOLEAN : DestroyTeamTeams(a, t, pw) = teams

\* C10 as stated: the six operations attempted by an identity that is not
\* the team's active leader fail with a permission error and change nothing.
C10_Original ==
    \A a \in DOMAIN users, t \in DOMAIN teams :
        ~ActiveLeader(t, a) =>
            /\ \A r \in C10_Answers(a, t) : r.code = 403
            /\ C10_NothingWritten(a, t)

\* C10: inviteMember, removeMember, transferLeadership, updateMembership,
\* team update and team soft-delete attempted by an identity that holds no
\* Membership with role=leader and status=active on the team never succeed
\* and leave the Team, its Memberships and its Pending Invitations
\* unchanged.  The refusal is a permission error (403) when the team is not
\* soft-deleted and, for team update and team soft-delete, the identity is
\* an active member of it; it is not-found (404) on a soft-deleted team and,
\* for team update and team soft-delete, for an identity without an active
\* Membership.
C10_LeaderOnly ==
    \A a \in DOMAIN users, t \in DOMAIN teams :
        ~ActiveLeader(t, a) =>
            /\ \A r \in C10_Answers(a, t) :
                   /\ ~Succeeded(r)
                   /\ r.code = (IF TeamLive(t) THEN 403 ELSE 404)
                      \/ (r.code = 404 /\ ActiveMemberships(t, a) = {}
                          /\ r \in {UpdateTeamResponse(a, t)}
                                 \cup {DestroyTeamResponse(a, t, pw) : pw \in BOOLEAN})
            /\ TeamLive(t) =>
                   /\ \A e \in InviteEmails, r \in ROLE_CHOICES :
                          InviteMemberResponse(a, t, e, r).code = 403
                   /\ \A u \in UserIds :
                          /\ RemoveMemberResponse(a, t, u).code = 403
                          /\ TransferLeadershipResponse(a, t, u).code = 403
                   /\ \A i \in Tokens, r \in ROLE_CHOICES :
                          UpdateMembershipResponse(a, t, i, r).code = 403
                   /\ UpdateTeamResponse(a, t).code =
                          (IF ActiveMemberships(t, a) # {} THEN 403 ELSE 404)
                   /\ \A pw \in BOOLEAN :
                          DestroyTeamResponse(a, t, pw).code =
                              (IF ActiveMemberships(t, a) # {} THEN 403 ELSE 404)
            /\ C10_NothingWritten(a, t)

\* an active member who is not the leader, next to a leader who can write
C10_Witness ==
    \E a \in DOMAIN users, b \in DOMAIN users, t \in DOMAIN teams :
        /\ TeamLive(t)
        /\ ~ActiveLeader(t, a) /\ ActiveMemberships(t, a) # {}
        /\ UpdateTeamResponse(a, t).code = 403
        /\ RemoveMemberResponse(a, t, b).code = 403
        /\ ActiveLeader(t, b) /\ Succeeded(RemoveMemberResponse(b, t, a))

\* C11: a createTeam that goes through creates a Team with
\* createdBy=identity and one Membership for (team, identity) with
\* role=leader, status=active, isDefaultGuardian=true,
\* isDefaultEmergencyContact=true and joinedAt = the creation time.
C11_CreateTeam ==
    \A a \in DOMAIN users, n \in TeamNames :
        Succeeded(CreateTeamResponse(a, n)) =>
            LET t == Len(teams) + 1 IN
            /\ Len(CreateTeamTeams(a, n)) = t
            /\ CreateTeamTeams(a, n)[t].created_by = a
            /\ \E m \in CreateTeamMemberships(a, n) :
                   /\ CreateTeamMemberships(a, n) = memberships \cup {m}
                   /\ m.team = t /\ m.user = a
                   /\ m.role = ROLE_LEADER /\ m.status = STATUS_ACTIVE
                   /\ m.is_default_guardian /\ m.is_default_emergency_contact
                   /\ m.joined_at = now

\* C12: createTeam and transferLeadership are all-or-nothing: when one of
\* the operation's writes fails none of its writes stays applied, so the
\* tables are as they were before the request.
C12_AllOrNothing ==
    /\ \A a \in DOMAIN users, n \in TeamNames :
           Succeeded(CreateTeamResponse(a, n)) =>
               CreateTeamFailing(a, n) = [teams |-> teams, memberships |-> memberships]
    /\ \A a \in DOMAIN users, t \in DOMAIN teams, u \in UserIds, d \in TransferSavesDone :
           Succeeded(TransferLeadershipResponse(a, t, u)) =>
               TransferLeadershipFailing(a, t, u, d) =
                   [teams |-> teams, memberships |-> memberships]

\* C13: whatever fails while inviteMember, acceptInvitation, leaveTeam or
\* claimPendingInvitation notifies, an operation that has made its
\* Membership transition still returns its success result.
C13_NotificationFailureCaught ==
    \A f \in NotificationFaults, a \in DOMAIN users :
        /\ \A t \in DOMAIN teams, e \in Emails, r \in ROLE_CHOICES :
               Succeeded(InviteMemberResponse(a, t, e, r))
                   => Succeeded(InviteMemberNotified(a, t, e, r, f))
        /\ \A k \in Tokens :
               /\ Succeeded(AcceptInvitationResponse(a, k))
                      => Succeeded(AcceptInvitationNotified(a, k, f))
               /\ Succeeded(ClaimPendingInvitationResponse(a, k))
                      => Succeeded(ClaimPendingInvitationNotified(a, k, f))
        /\ \A t \in DOMAIN teams :
               Succeeded(LeaveTeamResponse(a, t))
                   => Succeeded(LeaveTeamNotified(a, t, f))

\* C14 (round trip): soft_delete() stamps deletedAt, and restore() after
\* it leaves the team as it was with deletedAt null.
C14_DeletedAtCleared ==
    \A t \in DOMAIN teams :
        /\ SoftDeleteTeam(t)[t].deleted_at = now /\ now # NULL
        /\ RestoreTeamIn(SoftDeleteTeam(t), t) = [teams EXCEPT ![t].deleted_at = NULL]

\* C14 (frame): neither the soft-delete nor the restore of a team writes a
\* Membership row or a Pending Invitation.
C14_RowsKept ==
    ((\E a \in UserIds, t \in TeamIds, pw \in BOOLEAN : DestroyTeam(a, t, pw))
         \/ (\E t \in TeamIds : RestoreTeam(t)))
        => (memberships' = memberships /\ pending' = pending)

\* C14: softDelete(team) followed by restore(team) returns the team's
\* deletedAt to null and leaves every Membership row of the team unchanged.
C14_SoftDeleteRestore ==
    []C14_DeletedAtCleared /\ [][C14_RowsKept]_vars

\* a soft-deleted team that holds a leader row and an invitation with its
\* token, about to be restored
C14_Witness ==
    \E t \in DOMAIN teams :
        /\ teams[t].deleted_at # NULL
        /\ RestoreTeamIn(teams, t)[t].deleted_at = NULL
        /\ \E m \in memberships : m.team = t /\ m.invitation_token # NULL
        /\ \E m \in memberships : m.team = t /\ m.role = ROLE_LEADER

\* C15: for every Identity deletedAt != null implies active = false;
\* softDelete sets deletedAt and clears active, restore clears deletedAt and
\* sets active.
C15_DeletedInactive ==
    \A u \in DOMAIN accounts :
        /\ accounts[u].deleted_at # NULL => ~accounts[u].is_active
        /\ SoftDeleteUser(accounts[u]).deleted_at = clock /\ clock # NULL
        /\ ~SoftDeleteUser(accounts[u]).is_active
        /\ RestoreUser(accounts[u]).deleted_at = NULL
        /\ RestoreUser(accounts[u]).is_active
        /\ DeleteAccountAccounts(u, TRUE)[u] = SoftDeleteUser(accounts[u])

\* a soft-deleted identity next to one that is not
C15_Witness ==
    \E u \in DOMAIN accounts, v \in DOMAIN accounts :
        /\ accounts[u].deleted_at # NULL /\ ~accounts[u].is_active
        /\ accounts[u].restoration_code # ""
        /\ accounts[v].deleted_at = NULL /\ accounts[v].is_active

\* the identity with e-mail e, soft-deleted and inside the 30 days
C16_Restorable(u, e) ==
    /\ users[u] = e
    /\ accounts[u].deleted_at # NULL
    /\ clock < accounts[u].deleted_at + DeletionWindow

\* C16 (issue): a restoration code is issued exactly for a soft-deleted
\* Identity that cannot be permanently deleted yet; it is stored with an
\* expiry one hour later and nothing else is written; a refused request
\* writes nothing.
C16_Issue ==
    \A e \in InviteEmails, c \in RestorationCodes :
        LET after == RequestAccountRestorationAccounts(e, c) IN
        IF \E u \in DOMAIN users : C16_Restorable(u, e)
        THEN /\ Succeeded(RequestAccountRestorationResponse(e))
             /\ \A u \in DOMAIN users :
                    after[u] = IF users[u] = e
                               THEN [accounts[u] EXCEPT
                                         !.restoration_code = c,
                                         !.restoration_code_expires_at =
                                             clock + RestorationCodeTTL]
                               ELSE accounts[u]
        ELSE /\ ~Succeeded(RequestAccountRestorationResponse(e))
             /\ after = accounts

\* the code c restores the identity with e-mail e now
C16_CodeGood(u, e, c) ==
    /\ users[u] = e
    /\ accounts[u].deleted_at # NULL
    /\ c # "" /\ accounts[u].restoration_code = c
    /\ accounts[u].restoration_code_expires_at # NULL
    /\ clock <= accounts[u].restoration_code_expires_at

\* C16 (restore): RestoreAccount succeeds exactly when the supplied code
\* equals the stored non-empty code of the soft-deleted Identity and the
\* code has not expired; it then restores the Identity and clears the code;
\* a failing attempt writes nothing.
C16_Restore ==
    \A e \in InviteEmails, c \in CodeInputs :
        LET after == RestoreAccountAccounts(e, c) IN
        IF \E u \in DOMAIN users : C16_CodeGood(u, e, c)
        THEN /\ Succeeded(RestoreAccountResponse(e, c))
             /\ \A u \in DOMAIN users :
                    after[u] = IF users[u] = e THEN NewAccount ELSE accounts[u]
        ELSE /\ ~Succeeded(RestoreAccountResponse(e, c))
             /\ after = accounts

\* C16 (later): after a restore went through, no code restores that account
\* until a new code is issued.
C16_Later ==
    \A e \in Emails :
        (\E c \in CodeInputs : RestoreAccount(e, c)) =>
            \A c2 \in CodeInputs : ~Succeeded(RestoreAccountResponse(e, c2))'

\* C16: the restoration flow issues a code (expiring one hour later) only
\* for a soft-deleted Identity for which canBePermanentlyDeleted is false,
\* restores only on the stored non-empty unexpired code, clears the code on
\* success so that it cannot restore the account again, and leaves the
\* Identity unchanged on every failing attempt.
C16_RestorationFlow ==
    [](C16_Issue /\ C16_Restore) /\ [][C16_Later]_vars

\* a soft-deleted identity holding a code that restores it, while another
\* code and an expired-or-absent one are turned away
C16_Witness ==
    \E e \in Emails, c \in RestorationCodes, c2 \in RestorationCodes :
        /\ Succeeded(RestoreAccountResponse(e, c))
        /\ RestoreAccountResponse(e, c2).error = "invalid_code"
        /\ \E e2 \in Emails : RestoreAccountResponse(e2, c).error = "expired"

\* C17 (step): every Membership with status=left is still there, with
\* status=left, after any step.
C17_LeftStays ==
    \A m \in memberships :
        m.status = STATUS_LEFT =>
            \E n \in memberships' :
                n.id = m.id /\ n.team = m.team /\ n.user = m.user
                    /\ n.status = STATUS_LEFT

\* C17: left is a terminal Membership status: once a Membership has
\* status=left no operation changes its status again.
C17_LeftIsTerminal == [][C17_LeftStays]_vars

\* a left Membership that kept its token, whose owner and whose leader ask
\* for it to be accepted and removed
C17_Witness ==
    \E m \in memberships, a \in DOMAIN users :
        /\ m.status = STATUS_LEFT /\ m.invitation_token # NULL
        /\ ~Succeeded(AcceptInvitationResponse(m.user, m.invitation_token))
        /\ ActiveLeader(m.team, a) /\ TeamLive(m.team)
        /\ RemoveMemberResponse(a, m.team, m.user).error = "member_not_found"

\* the preconditions of inviteMember(a, t, raw, role)
C18_Preconditions(a, t, raw, role) ==
    /\ ActiveLeader(t, a) /\ TeamLive(t)
    /\ raw # ""
    /\ role \in {ROLE_MEMBER, ROLE_WITNESS}
    /\ ~\E m \in memberships :
            m.team = t /\ users[m.user] = Lower(raw) /\ m.status # STATUS_LEFT
    /\ ~\E p \in pending : p.team = t /\ p.email = Lower(raw)

\* C18: whenever its preconditions hold (a left Membership of the target
\* included) inviteMember succeeds, and in exactly one of two ways: for the
\* e-mail of an existing Identity it adds one Membership (status pending,
\* invitedBy the actor, a fresh token, expiry = sent + 7 days) and no
\* Pending Invitation; otherwise it adds one Pending Invitation (expiry =
\* now + 7 days) and no Membership.
C18_InviteMember ==
    \A a \in DOMAIN users, t \in DOMAIN teams, raw \in InviteEmails, role \in ROLE_CHOICES :
        C18_Preconditions(a, t, raw, role) =>
            LET rows == InviteMemberMemberships(a, t, raw, role)
                invs == InviteMemberPending(a, t, raw, role)
            IN  /\ Succeeded(InviteMemberResponse(a, t, raw, role))
                /\ IF \E u \in DOMAIN users : users[u] = Lower(raw)
                   THEN /\ invs = pending
                        /\ memberships \subseteq rows
                        /\ Cardinality(rows \ memberships) = 1
                        /\ \A m \in rows \ memberships :
                               /\ m.team = t /\ users[m.user] = Lower(raw)
                               /\ m.role = role /\ m.status = STATUS_PENDING
                               /\ m.invited_by = a
                               /\ m.invitation_token # NULL
                               /\ \A o \in memberships \cup pending :
                                      o.invitation_token # m.invitation_token
                               /\ m.invitation_sent_at = now
                               /\ m.invitation_expires_at =
                                      m.invitation_sent_at + InvitationTTL
                   ELSE /\ rows = memberships
                        /\ pending \subseteq invs
                        /\ Cardinality(invs \ pending) = 1
                        /\ \A p \in invs \ pending :
                               /\ p.team = t /\ p.email = Lower(raw) /\ p.role = role
                               /\ p.expires_at = now + InvitationTTL

\* the invitation with token k has expired
C19_Expired(m) ==
    m.invitation_expires_at # NULL /\ now > m.invitation_expires_at

C20_Target(t, u) ==
    \E m \in memberships :
        m.team = t /\ m.user = u /\ m.status \in {STATUS_ACTIVE, STATUS_PENDING}

\* removeMember(a, t, u) does what C20 says
C20_Contract(a, t, u) ==
    LET r    == RemoveMemberResponse(a, t, u)
        rows == RemoveMemberMemberships(a, t, u)
    IN  IF u # a /\ C20_Target(t, u)
        THEN /\ Succeeded(r)
             /\ now # NULL
             /\ \E m \in memberships :
                    /\ m.team = t /\ m.user = u
                    /\ rows = (memberships \ {m}) \cup
                                  {[m EXCEPT !.status = STATUS_LEFT, !.left_at = now]}
        ELSE /\ ~Succeeded(r)
             /\ rows = memberships

\* C20 as stated: removeMember by the active leader sets an active or
\* pending target other than the leader to left with leftAt, and fails
\* without change for target = self or a target with no such Membership.
C20_Original ==
    \A a \in DOMAIN users, t \in DOMAIN teams, u \in UserIds :
        ActiveLeader(t, a) => C20_Contract(a, t, u)

\* C20: the same on a team that is not soft-deleted; on a soft-deleted team
\* removeMember fails (not found) and no Membership changes.
C20_RemoveMember ==
    \A a \in DOMAIN users, t \in DOMAIN teams, u \in UserIds :
        ActiveLeader(t, a) =>
            IF TeamLive(t) THEN C20_Contract(a, t, u)
            ELSE /\ RemoveMemberResponse(a, t, u).code = 404
                 /\ RemoveMemberMemberships(a, t, u) = memberships

\* a leader who can remove a pending invitee and cannot remove themselves
C20_Witness ==
    \E a \in DOMAIN users, u \in DOMAIN users, t \in DOMAIN teams :
        /\ ActiveLeader(t, a) /\ TeamLive(t)
        /\ \E m \in memberships : m.team = t /\ m.user = u /\ m.status = STATUS_PENDING
        /\ Succeeded(RemoveMemberResponse(a, t, u))
        /\ RemoveMemberResponse(a, t, a).error = "cannot_remove_self"

\* the active leader Memberships of m's team other than m
C21_OtherLeaders(m) ==
    {o \in memberships :
        o.team = m.team /\ o.id # m.id
            /\ o.role = ROLE_LEADER /\ o.status = STATUS_ACTIVE}

\* C21: updateMembership that changes the role of a Membership holding
\* role=leader to member or witness fails, with a validation error when
\* the actor is the active leader of the live team, and leaves the table
\* unchanged, unless another Membership on the team has role=leader and
\* status=active; with such a Membership the leader's request goes through.
C21_DemoteLeader ==
    \A a \in DOMAIN users, m \in memberships, role \in {ROLE_MEMBER, ROLE_WITNESS} :
        m.role = ROLE_LEADER =>
            LET r    == UpdateMembershipResponse(a, m.team, m.id, role)
                rows == UpdateMembershipMemberships(a, m.team, m.id, role)
            IN  /\ C21_OtherLeaders(m) = {} => (~Succeeded(r) /\ rows = memberships)
                /\ (ActiveLeader(m.team, a) /\ TeamLive(m.team)) =>
                       IF C21_OtherLeaders(m) = {}
                       THEN r.code = 400 /\ r.error = "cannot_remove_leader_role"
                       ELSE /\ Succeeded(r)
                            /\ rows = (memberships \ {m}) \cup {[m EXCEPT !.role = role]}

\* the only leader of a team with another active member asks to be demoted
C21_Witness ==
    \E a \in DOMAIN users, m \in memberships, o \in memberships :
        /\ m.user = a /\ m.role = ROLE_LEADER /\ m.status = STATUS_ACTIVE
        /\ TeamLive(m.team) /\ C21_OtherLeaders(m) = {}
        /\ o.team = m.team /\ o.role = ROLE_MEMBER /\ o.status = STATUS_ACTIVE
        /\ UpdateMembershipResponse(a, m.team, m.id, ROLE_MEMBER).code = 400

\* C22: declineInvitation of a pending Membership by its invitee deletes
\* that row, expired or not, and no row of any status remains for the
\* (team, user); by a different identity it fails with PermissionDenied and
\* the row stays pending with its token.
C22_DeclineInvitation ==
    \A a \in DOMAIN users, m \in memberships :
        (m.status = STATUS_PENDING /\ m.invitation_token # NULL) =>
            LET r    == DeclineInvitationResponse(a, m.invitation_token)
                rows == DeclineInvitationMemberships(a, m.invitation_token)
            IN  IF m.user = a
                THEN /\ Succeeded(r)
                     /\ rows = memberships \ {m}
                     /\ ~\E n \in rows : n.team = m.team /\ n.user = m.user
                ELSE /\ r.code = 403 /\ r.error = "different_user"
                     /\ rows = memberships
                     /\ m \in rows

\* an expired invitation that its invitee can decline and a stranger cannot
C22_Witness ==
    \E a \in DOMAIN users, m \in memberships :
        /\ m.status = STATUS_PENDING /\ m.user # a
        /\ m.invitation_expires_at # NULL /\ now > m.invitation_expires_at
        /\ Succeeded(DeclineInvitationResponse(m.user, m.invitation_token))
        /\ DeclineInvitationResponse(a, m.invitation_token).code = 403

\* C23: under any interleaving of overlapping inviteMember calls for the
\* same (team, email) there is at most one Membership row for a (team,
\* user) and at most one Pending Invitation for a (team, email), in every
\* reachable state.
C23_NoDuplicateInvitation ==
    /\ \A m \in memberships, n \in memberships :
           (m.team = n.team /\ m.user = n.user) => m = n
    /\ \A p \in pending, q \in pending :
           (p.team = q.team /\ p.email = q.email) => p = q

\* two inviteMember calls for the same (team, email) passed every test of
\* the view: one has inserted its row and the other is about to insert
C23_Witness ==
    \E c \in calls, m \in memberships :
        /\ c.op = "invite" /\ c.pc = "insert"
        /\ m.team = c.team /\ m.user = c.user /\ m.id # c.id
        /\ m.status = STATUS_PENDING /\ users[m.user] = c.email

\* C28: when transferLeadership overlaps leaveTeam(target) or removeMember
\* of the target, in any interleaving of their reads and writes, once the
\* requests are over every team has an active leader Membership.
C28_LeaderAfterRace ==
    calls = {} => \A t \in DOMAIN teams : GetLeader(t) # {}

\* C24: inviteMember creates no Pending Invitation for an e-mail that
\* equals the e-mail of an existing Identity up to letter case.
C24_PendingOnlyForStrangers ==
    \A a \in DOMAIN users, t \in DOMAIN teams, raw \in InviteEmails, role \in ROLE_CHOICES :
        (\E u \in DOMAIN users : Lower(users[u]) = Lower(raw)) =>
            InviteMemberPending(a, t, raw, role) = pending

\* a row with role=witness and an override set
C25_Forbidden(row) ==
    /\ row.role = ROLE_WITNESS
    /\ (row.guardian_override # NULL \/ row.emergency_contact_override # NULL)

\* C25: no Membership with role=witness has guardianOverride or
\* emergencyContactOverride set; an updateMembership and a save of the
\* overrides that would store such a row are rejected and leave the table
\* unchanged.
C25_WitnessHasNoOverride ==
    /\ \A m \in memberships : ~C25_Forbidden(m)
    /\ \A a \in DOMAIN users, m \in memberships, d \in UpdateData :
           C25_Forbidden(PatchedRow(m, d)) =>
               /\ ~Succeeded(PatchMembershipResponse(a, m.team, m.id, d))
               /\ PatchMembershipMemberships(a, m.team, m.id, d) = memberships
    /\ \A m \in memberships, g \in DOMAIN users \cup {NULL}, e \in DOMAIN users \cup {NULL} :
           C25_Forbidden(OverriddenRow(m, g, e)) =>
               /\ ~SaveOverridesAccepted(m, g, e)
               /\ SaveOverridesMemberships(m, g, e) = memberships

\* a member holding an override whom the leader tries to make a witness,
\* beside a witness
C25_Witness ==
    \E a \in DOMAIN users, m \in memberships, w \in memberships :
        /\ m.role = ROLE_MEMBER /\ m.emergency_contact_override # NULL
        /\ ActiveLeader(m.team, a)
        /\ PatchMembershipResponse(a, m.team, m.id, [role |-> ROLE_WITNESS]).code = 500
        /\ w.team = m.team /\ w.role = ROLE_WITNESS
        /\ ~SaveOverridesAccepted(w, a, NULL)

\* what C26 lets a resolution return: the override, else (with the default
\* flag) the user of an active leader of the team, else nothing
C26_Resolves(rows, m, override, flag, result) ==
    IF override # NULL THEN result = override
    ELSE IF flag
    THEN \/ \E l \in rows : /\ l.team = m.team /\ l.role = ROLE_LEADER
                            /\ l.status = STATUS_ACTIVE /\ result = l.user
         \/ /\ result = NULL
            /\ ~\E l \in rows : l.team = m.team /\ l.role = ROLE_LEADER
                                 /\ l.status = STATUS_ACTIVE
    ELSE result = NULL

\* C26: getGuardian returns guardianOverride when set, else the user of the
\* team's active leader when isDefaultGuardian, else nothing; likewise
\* getEmergencyContact; and after transferLeadership(a, t, u) the default
\* of every Membership of the team resolves to the new leader u.
C26_Resolution ==
    /\ \A m \in memberships :
           /\ C26_Resolves(memberships, m, m.guardian_override, m.is_default_guardian,
                           GetGuardian(memberships, m))
           /\ C26_Resolves(memberships, m, m.emergency_contact_override,
                           m.is_default_emergency_contact,
                           GetEmergencyContact(memberships, m))
    /\ \A a \in DOMAIN users, t \in DOMAIN teams, u \in DOMAIN users :
           Succeeded(TransferLeadershipResponse(a, t, u)) =>
               LET rows == TransferLeadershipMemberships(a, t, u) IN
               \A m \in rows :
                   m.team = t =>
                       /\ (m.guardian_override = NULL /\ m.is_default_guardian)
                              => GetGuardian(rows, m) = u
                       /\ (m.emergency_contact_override = NULL
                              /\ m.is_default_emergency_contact)
                              => GetEmergencyContact(rows, m) = u

\* C27: with requests running one at a time, every team created by
\* createTeam has at least one Membership with role=leader and
\* status=active in every state reached afterwards.
C27_AlwaysALeader ==
    \A t \in DOMAIN teams :
        \E m \in memberships :
            m.team = t /\ m.role = ROLE_LEADER /\ m.status = STATUS_ACTIVE

\* a team whose leader was once invited and whose creator has left
C27_Witness ==
    \E l \in memberships, o \in memberships :
        /\ l.role = ROLE_LEADER /\ l.status = STATUS_ACTIVE /\ l.invited_by # NULL
        /\ o.team = l.team /\ o.invited_by = NULL /\ o.status = STATUS_LEFT

\* the rows of team t in a table of Memberships or Pending Invitations
C29_Of(rows, t) == {r \in rows : r.team = t}

\* C29: while a team is soft-deleted no operation changes its membership:
\* inviteMember, leaveTeam, removeMember, updateMembership and
\* transferLeadership fail with not-found, and acceptInvitation,
\* declineInvitation and claimPendingInvitation create, activate or delete
\* no Membership and no Pending Invitation of that team.
C29_SoftDeletedTeamFrozen ==
    \A t \in DOMAIN teams :
        teams[t].deleted_at # NULL =>
            /\ \A a \in DOMAIN users :
                   /\ LeaveTeamResponse(a, t).code = 404
                   /\ \A e \in InviteEmails, r \in ROLE_CHOICES :
                          InviteMemberResponse(a, t, e, r).code = 404
                   /\ \A u \in UserIds :
                          /\ RemoveMemberResponse(a, t, u).code = 404
                          /\ TransferLeadershipResponse(a, t, u).code = 404
                   /\ \A i \in Tokens, r \in ROLE_CHOICES :
                          UpdateMembershipResponse(a, t, i, r).code = 404
            /\ \A a \in DOMAIN users, k \in Tokens :
                   /\ C29_Of(AcceptInvitationMemberships(a, k), t) = C29_Of(memberships, t)
                   /\ C29_Of(DeclineInvitationMemberships(a, k), t) = C29_Of(memberships, t)
                   /\ C29_Of(ClaimPendingInvitationMemberships(a, k), t)
                          = C29_Of(memberships, t)
                   /\ C29_Of(ClaimPendingInvitationPending(a, k), t) = C29_Of(pending, t)

\* C30: RestoreAccount fails for a soft-deleted Identity whose 30 days have
\* passed (canBePermanentlyDeleted), whatever code it is given, a matching
\* unexpired code issued before the window closed included.
C30_NoRestoreAfterWindow ==
    \A email \in InviteEmails, code \in CodeInputs :
        \A u \in DOMAIN users :
            (users[u] = email /\ accounts[u].deleted_at # NULL
                /\ clock >= accounts[u].deleted_at + DeletionWindow)
                => ~Succeeded(RestoreAccountResponse(email, code))

====
